---- MODULE Spec2Model ----
(***************************************************************************)
(* Model of the class-booking backend (src/main.go): the two HTTP handlers *)
(* classHandler and bookingHandler, run by concurrent request goroutines   *)
(* over the package-level slices classes and bookings, the counters        *)
(* classId and bookingId, the mutex, the two JSON snapshot files and the   *)
(* api_responses.log audit file; plus a process restart that reloads the   *)
(* snapshots as main() does.                                               *)
(***************************************************************************)
EXTENDS Integers, Sequences, FiniteSets, TLC

(***************************************************************************)
(* Bounds of the model.                                                    *)
(***************************************************************************)
NumProcs == 2          \* concurrent request goroutines
MaxClasses == 2        \* length of the classes slice
MaxBookings == 2       \* length of the bookings slice
MaxCapacity == 2       \* capacity of the larger class
MaxRestarts == 1       \* process restarts
MaxFaults == 1         \* file writes that fail

Procs == 1..NumProcs

(***************************************************************************)
(* Request inputs: the decoded JSON bodies the clients send.               *)
(***************************************************************************)
Class(name, start, end, capacity) ==
    [ID |-> 0, ClassName |-> name, StartDate |-> start, EndDate |-> end,
     Capacity |-> capacity]

Booking(member, date, name) ==
    [ID |-> 0, MemberName |-> member, Date |-> date, ClassName |-> name]

\* Two classes of one name whose ranges overlap on 05-01-2025 and whose
\* capacities differ, and a one-day class of another name.
ValidClassBodies ==
    {Class("Pilates", "16-12-2024", "05-01-2025", MaxCapacity),
     Class("Pilates", "05-01-2025", "05-01-2025", 1),
     Class("Yoga", "16-12-2024", "16-12-2024", 1)}

InvalidClassBodies ==
    {Class("", "16-12-2024", "05-01-2025", 1),
     Class("Yoga", "", "05-01-2025", 1),
     Class("Yoga", "16-12-2024", "", 1),
     Class("Yoga", "16-12-2024", "05-01-2025", 0),
     Class("Yoga", "16-12-2024", "05-01-2025", -5),
     Class("Yoga", "12/16/2024", "05-01-2025", 1),
     Class("Yoga", "16-12-2024", "2025-01-05", 1),
     Class("Yoga", "12/16/2024", "2025-01-05", 1),
     Class("Yoga", "31-11-2024", "05-01-2025", 1),
     Class("Yoga", "05-01-2025", "16-12-2024", 1),
     Class("", "12/16/2024", "16-12-2024", 0)}

ClassBodies == ValidClassBodies \cup InvalidClassBodies

ValidBookingBodies ==
    {Booking("Rahul", d, n) : d \in {"16-12-2024", "05-01-2025"},
                              n \in {"Pilates", "Yoga"}}

InvalidBookingBodies ==
    {Booking("", "16-12-2024", "Pilates"),
     Booking("Rahul", "", "Pilates"),
     Booking("Rahul", "16-12-2024", ""),
     Booking("Rahul", "12/16/2024", "Pilates"),
     Booking("Rahul", "29-02-2025", "Pilates"),
     Booking("", "12/16/2024", "")}

BookingBodies == ValidBookingBodies \cup InvalidBookingBodies

(***************************************************************************)
(* time.Parse("02-01-2006", text): two-digit day, "-", two-digit month,    *)
(* "-", four-digit year, nothing after; month in 1..12, day in 1..daysIn.  *)
(***************************************************************************)
DigitVal(c) ==
    CASE c = "0" -> 0 [] c = "1" -> 1 [] c = "2" -> 2 [] c = "3" -> 3
      [] c = "4" -> 4 [] c = "5" -> 5 [] c = "6" -> 6 [] c = "7" -> 7
      [] c = "8" -> 8 [] c = "9" -> 9 [] OTHER -> -1

CharAt(text, i) == SubSeq(text, i, i)

isDigit(text, i) == i <= Len(text) /\ DigitVal(CharAt(text, i)) >= 0

RECURSIVE atoi(_, _, _)
atoi(text, from, to) ==
    IF to < from THEN 0
    ELSE 10 * atoi(text, from, to - 1) + DigitVal(CharAt(text, to))

isLeap(year) == year % 4 = 0 /\ (year % 100 # 0 \/ year % 400 = 0)

daysIn(month, year) ==
    IF month = 2 THEN (IF isLeap(year) THEN 29 ELSE 28)
    ELSE IF month \in {4, 6, 9, 11} THEN 30 ELSE 31

\* the zero time.Time that a failed time.Parse returns
NoDate == [ok |-> FALSE, year |-> 1, month |-> 1, day |-> 1]

ParseDate(text) ==
    IF /\ Len(text) = 10
       /\ \A i \in {1, 2, 4, 5, 7, 8, 9, 10} : isDigit(text, i)
       /\ CharAt(text, 3) = "-"
       /\ CharAt(text, 6) = "-"
    THEN LET d == atoi(text, 1, 2)
             m == atoi(text, 4, 5)
             y == atoi(text, 7, 10)
         IN IF m >= 1 /\ m <= 12 /\ d >= 1 /\ d <= daysIn(m, y)
            THEN [ok |-> TRUE, year |-> y, month |-> m, day |-> d]
            ELSE NoDate
    ELSE NoDate

\* time.Time.Before / After on midnight-UTC instants
Before(a, b) ==
    \/ a.year < b.year
    \/ a.year = b.year /\ a.month < b.month
    \/ a.year = b.year /\ a.month = b.month /\ a.day < b.day

After(a, b) == Before(b, a)

(***************************************************************************)
(* Program state.                                                          *)
(***************************************************************************)
VARIABLES
    classes,          \* []Class
    bookings,         \* []Booking
    classId,          \* next class ID
    bookingId,        \* next booking ID
    mutex,            \* 0 = unlocked, else the goroutine holding it
    classesJson,      \* content of classes.json
    bookingsJson,     \* content of bookings.json
    apiLog,           \* lines of api_responses.log
    pc,               \* position of each request goroutine
    newClass,         \* classHandler local
    newBooking,       \* bookingHandler local
    classFound,       \* bookingHandler local: copy of the class found
    availableSlots,   \* bookingHandler local
    resp,             \* what the ResponseWriter received
    restarts,         \* restarts so far
    faults,           \* file writes that have failed so far
    loadedBookings,   \* bookings read from bookings.json by main()
    touched,          \* history: the running call changed stored data
    okClass,          \* history: classes created (201) in this lifetime
    okBooking,        \* history: bookings created (201) in this lifetime
    contended         \* history: the batch of concurrent bookings, if any

data == <<classes, bookings, classId, bookingId, classesJson, bookingsJson, apiLog>>
locals == <<newClass, newBooking, classFound, availableSlots>>
vars == <<classes, bookings, classId, bookingId, mutex, classesJson,
          bookingsJson, apiLog, pc, newClass, newBooking, classFound,
          availableSlots, resp, restarts, faults, loadedBookings, touched,
          okClass, okBooking, contended>>

ZeroClass == [ID |-> 0, ClassName |-> "", StartDate |-> "", EndDate |-> "", Capacity |-> 0]
ZeroBooking == [ID |-> 0, MemberName |-> "", Date |-> "", ClassName |-> ""]
NoResp == [code |-> 0, message |-> "", class |-> ZeroClass,
           booking |-> ZeroBooking, availableSlots |-> 0]

\* no batch of concurrent bookings is being followed
NoBatch == [body |-> ZeroBooking, slots |-> 0, procs |-> {}]

Init ==
    /\ classes = <<>>
    /\ bookings = <<>>
    /\ classId = 1
    /\ bookingId = 1
    /\ mutex = 0
    /\ classesJson = <<>>
    /\ bookingsJson = <<>>
    /\ apiLog = <<>>
    /\ pc = [p \in Procs |-> "idle"]
    /\ newClass = [p \in Procs |-> ZeroClass]
    /\ newBooking = [p \in Procs |-> ZeroBooking]
    /\ classFound = [p \in Procs |-> ZeroClass]
    /\ availableSlots = [p \in Procs |-> 0]
    /\ resp = [p \in Procs |-> NoResp]
    /\ restarts = 0
    /\ faults = 0
    /\ loadedBookings = 0
    /\ touched = [p \in Procs |-> FALSE]
    /\ okClass = 0
    /\ okBooking = 0
    /\ contended = NoBatch

(***************************************************************************)
(* Responses (errorResponse / successResponse) and history bookkeeping.    *)
(***************************************************************************)
errorResponse(statusCode, message) ==
    [code |-> statusCode, message |-> message, class |-> ZeroClass,
     booking |-> ZeroBooking, availableSlots |-> 0]

successResponse(statusCode, message, class, booking, slots) ==
    [code |-> statusCode, message |-> message, class |-> class,
     booking |-> booking, availableSlots |-> slots]

\* History of the step goroutine p has just taken.  The history variables
\* are written here and read by no action.
History(p) ==
    /\ touched' = [touched EXCEPT ![p] =
                     IF pc'[p] = "idle" THEN FALSE ELSE @ \/ data' # data]
    /\ okClass' = IF resp'[p] # resp[p] /\ resp'[p].message = "Class created successfully"
                  THEN okClass + 1 ELSE okClass
    /\ okBooking' = IF resp'[p] # resp[p] /\ resp'[p].message = "Booking successful"
                    THEN okBooking + 1 ELSE okBooking
    /\ contended' = contended

\* A file write succeeds (TRUE) or returns an error (FALSE); at most
\* MaxFaults writes fail.
WriteOutcomes == IF faults < MaxFaults THEN {TRUE, FALSE} ELSE {TRUE}

\* Requests that have passed validation and have not appended yet.
PendingClasses == Cardinality({q \in Procs : pc[q] \in {"c_lock", "c_append"}})
PendingBookings ==
    Cardinality({q \in Procs : pc[q] \in {"b_lock", "b_find", "b_count", "b_append"}})

(***************************************************************************)
(* classHandler                                                            *)
(***************************************************************************)
\* a class that ends on the day it starts is refused
ClassCheck_RejectsOneDay(method, decodes, c) ==
    IF method # "POST" THEN errorResponse(405, "Invalid request method")
    ELSE IF ~decodes THEN errorResponse(400, "Invalid request body")
    ELSE IF c.ClassName = "" \/ c.StartDate = "" \/ c.EndDate = "" \/ c.Capacity <= 0
         THEN errorResponse(400, "Invalid data format")
    ELSE IF ~ParseDate(c.StartDate).ok
         THEN errorResponse(400, "Invalid startDate format, use DD-MM-YYYY")
    ELSE IF ~ParseDate(c.EndDate).ok
         THEN errorResponse(400, "Invalid endDate format, use DD-MM-YYYY")
    ELSE IF ~After(ParseDate(c.EndDate), ParseDate(c.StartDate))
         THEN errorResponse(400, "endDate must be after startDate")
    ELSE NoResp

\* main.go 110-141: the checks made before the mutex is taken, in order.
ClassCheck(method, decodes, c) ==
    IF method # "POST" THEN errorResponse(405, "Invalid request method")
    ELSE IF ~decodes THEN errorResponse(400, "Invalid request body")
    ELSE IF c.ClassName = "" \/ c.StartDate = "" \/ c.EndDate = "" \/ c.Capacity <= 0
         THEN errorResponse(400, "Invalid data format")
    ELSE IF ~ParseDate(c.StartDate).ok
         THEN errorResponse(400, "Invalid startDate format, use DD-MM-YYYY")
    ELSE IF ~ParseDate(c.EndDate).ok
         THEN errorResponse(400, "Invalid endDate format, use DD-MM-YYYY")
    ELSE IF Before(ParseDate(c.EndDate), ParseDate(c.StartDate))
         THEN errorResponse(400, "endDate must be after startDate")
    ELSE NoResp

\* main.go 109-141: a request arrives and is decoded into newClass; one that
\* fails a check is answered and the handler returns, one that passes goes on
\* to mutex.Lock().
ClassReceive(p) ==
    /\ pc[p] = "idle"
    /\ \E in \in {<<"GET", FALSE, ZeroClass>>, <<"POST", FALSE, ZeroClass>>}
               \cup {<<"POST", TRUE, c>> : c \in ClassBodies} :
         LET r == ClassCheck(in[1], in[2], in[3]) IN
         /\ r = NoResp => Len(classes) + PendingClasses < MaxClasses
         /\ newClass' = [newClass EXCEPT ![p] = in[3]]
         /\ resp' = [resp EXCEPT ![p] = r]
         /\ pc' = [pc EXCEPT ![p] = IF r = NoResp THEN "c_lock" ELSE "done"]
    /\ UNCHANGED <<data, mutex, newBooking, classFound, availableSlots,
                   restarts, faults, loadedBookings>>
    /\ History(p)

\* main.go 143: mutex.Lock()
ClassLock(p) ==
    /\ pc[p] = "c_lock"
    /\ mutex = 0
    /\ mutex' = p
    /\ pc' = [pc EXCEPT ![p] = "c_append"]
    /\ UNCHANGED <<data, locals, resp, restarts, faults, loadedBookings>>
    /\ History(p)

\* classId is not advanced
ClassAppend_NoIncrement(p) ==
    /\ pc[p] = "c_append"
    /\ newClass' = [newClass EXCEPT ![p].ID = classId]
    /\ classId' = classId
    /\ classes' = Append(classes, newClass'[p])
    /\ pc' = [pc EXCEPT ![p] = "c_save"]
    /\ UNCHANGED <<bookings, bookingId, mutex, classesJson, bookingsJson, apiLog,
                   newBooking, classFound, availableSlots, resp, restarts,
                   faults, loadedBookings>>
    /\ History(p)

\* the mutex guards the append alone and is released before the file write
ClassAppend_Releases(p) ==
    /\ pc[p] = "c_append"
    /\ newClass' = [newClass EXCEPT ![p].ID = classId]
    /\ classId' = classId + 1
    /\ classes' = Append(classes, newClass'[p])
    /\ mutex' = 0
    /\ pc' = [pc EXCEPT ![p] = "c_save"]
    /\ UNCHANGED <<bookings, bookingId, classesJson, bookingsJson, apiLog,
                   newBooking, classFound, availableSlots, resp, restarts,
                   faults, loadedBookings>>
    /\ History(p)

\* main.go 146-148
ClassAppend(p) ==
    /\ pc[p] = "c_append"
    /\ newClass' = [newClass EXCEPT ![p].ID = classId]
    /\ classId' = classId + 1
    /\ classes' = Append(classes, newClass'[p])
    /\ pc' = [pc EXCEPT ![p] = "c_save"]
    /\ UNCHANGED <<bookings, bookingId, mutex, classesJson, bookingsJson, apiLog,
                   newBooking, classFound, availableSlots, resp, restarts,
                   faults, loadedBookings>>
    /\ History(p)

\* the append is undone when the write fails
ClassSave_Rollback(p) ==
    /\ pc[p] = "c_save"
    /\ \E written \in WriteOutcomes :
         IF written
         THEN /\ classesJson' = classes
              /\ classes' = classes
              /\ faults' = faults
              /\ resp' = resp
              /\ pc' = [pc EXCEPT ![p] = "c_respond"]
         ELSE /\ classesJson' = classesJson
              /\ classes' = SubSeq(classes, 1, Len(classes) - 1)
              /\ faults' = faults + 1
              /\ resp' = [resp EXCEPT ![p] =
                            errorResponse(500, "Failed to save class data")]
              /\ pc' = [pc EXCEPT ![p] = "unlock"]
    /\ UNCHANGED <<bookings, classId, bookingId, mutex, bookingsJson,
                   apiLog, locals, restarts, loadedBookings>>
    /\ History(p)

\* the file is rewritten with the new class alone
ClassSave_WritesNewOnly(p) ==
    /\ pc[p] = "c_save"
    /\ \E written \in WriteOutcomes :
         IF written
         THEN /\ classesJson' = <<classes[Len(classes)]>>
              /\ faults' = faults
              /\ resp' = resp
              /\ pc' = [pc EXCEPT ![p] = "c_respond"]
         ELSE /\ classesJson' = classesJson
              /\ faults' = faults + 1
              /\ resp' = [resp EXCEPT ![p] =
                            errorResponse(500, "Failed to save class data")]
              /\ pc' = [pc EXCEPT ![p] = "unlock"]
    /\ UNCHANGED <<classes, bookings, classId, bookingId, mutex, bookingsJson,
                   apiLog, locals, restarts, loadedBookings>>
    /\ History(p)

\* the failed write is recorded in the audit log
ClassSave_LogsFailure(p) ==
    /\ pc[p] = "c_save"
    /\ \E written \in WriteOutcomes :
         IF written
         THEN /\ classesJson' = classes
              /\ apiLog' = apiLog
              /\ faults' = faults
              /\ resp' = resp
              /\ pc' = [pc EXCEPT ![p] = "c_respond"]
         ELSE /\ classesJson' = classesJson
              /\ apiLog' = Append(apiLog, [msg |-> "Failed to save class data",
                                           id |-> newClass[p].ID])
              /\ faults' = faults + 1
              /\ resp' = [resp EXCEPT ![p] =
                            errorResponse(500, "Failed to save class data")]
              /\ pc' = [pc EXCEPT ![p] = "unlock"]
    /\ UNCHANGED <<classes, bookings, classId, bookingId, mutex, bookingsJson,
                   locals, restarts, loadedBookings>>
    /\ History(p)

\* main.go 151-154: writeDataToJsonFile("classes.json", classes).  A write
\* that returns an error is taken to leave the previous file content.
ClassSave(p) ==
    /\ pc[p] = "c_save"
    /\ \E written \in WriteOutcomes :
         IF written
         THEN /\ classesJson' = classes
              /\ faults' = faults
              /\ resp' = resp
              /\ pc' = [pc EXCEPT ![p] = "c_respond"]
         ELSE /\ classesJson' = classesJson
              /\ faults' = faults + 1
              /\ resp' = [resp EXCEPT ![p] =
                            errorResponse(500, "Failed to save class data")]
              /\ pc' = [pc EXCEPT ![p] = "unlock"]
    /\ UNCHANGED <<classes, bookings, classId, bookingId, mutex, bookingsJson,
                   apiLog, locals, restarts, loadedBookings>>
    /\ History(p)

\* main.go 156
ClassRespond(p) ==
    /\ pc[p] = "c_respond"
    /\ resp' = [resp EXCEPT ![p] =
                  successResponse(201, "Class created successfully",
                                  newClass[p], ZeroBooking, 0)]
    /\ pc' = [pc EXCEPT ![p] = "c_log"]
    /\ UNCHANGED <<data, mutex, locals, restarts, faults, loadedBookings>>
    /\ History(p)

\* main.go 157 and 69-81: logData appends one line unless the log file
\* cannot be opened or written.
ClassLog(p) ==
    /\ pc[p] = "c_log"
    /\ \E logged \in WriteOutcomes :
         /\ apiLog' = IF logged
                   THEN Append(apiLog, [msg |-> "Class created successfully",
                                        id |-> newClass[p].ID])
                   ELSE apiLog
         /\ faults' = IF logged THEN faults ELSE faults + 1
    /\ pc' = [pc EXCEPT ![p] = "unlock"]
    /\ UNCHANGED <<classes, bookings, classId, bookingId, mutex, classesJson,
                   bookingsJson, locals, resp, restarts, loadedBookings>>
    /\ History(p)

\* main.go 144 / 186: the deferred mutex.Unlock() as the handler returns;
\* its locals go out of scope.
Unlock(p) ==
    /\ pc[p] = "unlock"
    /\ mutex' = 0
    /\ pc' = [pc EXCEPT ![p] = "done"]
    /\ newClass' = [newClass EXCEPT ![p] = ZeroClass]
    /\ newBooking' = [newBooking EXCEPT ![p] = ZeroBooking]
    /\ classFound' = [classFound EXCEPT ![p] = ZeroClass]
    /\ availableSlots' = [availableSlots EXCEPT ![p] = 0]
    /\ UNCHANGED <<data, resp, restarts, faults, loadedBookings>>
    /\ History(p)

\* The response has gone to the client and the handler has returned: the
\* decoded body of a request answered before the Lock goes out of scope, and
\* the goroutine serves the next request.
Return(p) ==
    /\ pc[p] = "done"
    /\ pc' = [pc EXCEPT ![p] = "idle"]
    /\ resp' = [resp EXCEPT ![p] = NoResp]
    /\ newClass' = [newClass EXCEPT ![p] = ZeroClass]
    /\ newBooking' = [newBooking EXCEPT ![p] = ZeroBooking]
    /\ UNCHANGED <<data, mutex, classFound, availableSlots, restarts, faults,
                   loadedBookings>>
    /\ History(p)

(***************************************************************************)
(* bookingHandler                                                          *)
(***************************************************************************)
\* the end of the range is not looked at
ClassMatches_NoEndCheck(class, b) ==
    /\ class.ClassName = b.ClassName
    /\ ~Before(ParseDate(b.Date), ParseDate(class.StartDate))

\* the start of the range is not looked at
ClassMatches_NoStartCheck(class, b) ==
    /\ class.ClassName = b.ClassName
    /\ ~After(ParseDate(b.Date), ParseDate(class.EndDate))

\* the class is looked up by its name alone
ClassMatches_NameOnly(class, b) ==
    class.ClassName = b.ClassName

\* the end date itself is outside the range
ClassMatches_ExclusiveEnd(class, b) ==
    /\ class.ClassName = b.ClassName
    /\ ~Before(ParseDate(b.Date), ParseDate(class.StartDate))
    /\ Before(ParseDate(b.Date), ParseDate(class.EndDate))

\* main.go 190-193: the test one iteration of the lookup loop makes
ClassMatches(class, b) ==
    /\ class.ClassName = b.ClassName
    /\ ~Before(ParseDate(b.Date), ParseDate(class.StartDate))
    /\ ~After(ParseDate(b.Date), ParseDate(class.EndDate))

\* the loop does not break and keeps the last match
FindClass_LastMatch(cs, b, i) ==
    LET matches == {k \in i..Len(cs) : ClassMatches(cs[k], b)} IN
    IF matches = {} THEN 0
    ELSE CHOOSE k \in matches : \A m \in matches : m <= k

\* main.go 188-198: index of the class the loop breaks on, 0 for nil
RECURSIVE FindClass(_, _, _)
FindClass(cs, b, i) ==
    IF i > Len(cs) THEN 0
    ELSE IF ClassMatches(cs[i], b) THEN i
    ELSE FindClass(cs, b, i + 1)

\* the loop stops one record early
RECURSIVE CountBookings_SkipLast(_, _, _)
CountBookings_SkipLast(bs, b, i) ==
    IF i >= Len(bs) THEN 0
    ELSE (IF bs[i].ClassName = b.ClassName /\ bs[i].Date = b.Date THEN 1 ELSE 0)
         + CountBookings_SkipLast(bs, b, i + 1)

\* main.go 205-210
RECURSIVE CountBookings(_, _, _)
CountBookings(bs, b, i) ==
    IF i > Len(bs) THEN 0
    ELSE (IF bs[i].ClassName = b.ClassName /\ bs[i].Date = b.Date THEN 1 ELSE 0)
         + CountBookings(bs, b, i + 1)

\* The bookings slice stays within MaxBookings: a request that passes the
\* checks is taken up while there is room for its record, or when its class
\* and date are sold out already (it will be refused and append nothing).
SoldOut(b) ==
    LET i == FindClass(classes, b, 1) IN
    i # 0 /\ classes[i].Capacity - CountBookings(bookings, b, 1) <= 0

BookingFits(b) == Len(bookings) + PendingBookings < MaxBookings \/ SoldOut(b)

\* the date is parsed before the fields are tested for emptiness
BookingCheck_DateFirst(method, decodes, b) ==
    IF method # "POST" THEN errorResponse(405, "Invalid request method")
    ELSE IF ~decodes THEN errorResponse(400, "Invalid request body")
    ELSE IF ~ParseDate(b.Date).ok
         THEN errorResponse(400, "Invalid date format, use DD-MM-YYYY")
    ELSE IF b.MemberName = "" \/ b.Date = "" \/ b.ClassName = ""
         THEN errorResponse(400, "Invalid field format")
    ELSE NoResp

\* main.go 163-183: the checks made before the mutex is taken, in order.
BookingCheck(method, decodes, b) ==
    IF method # "POST" THEN errorResponse(405, "Invalid request method")
    ELSE IF ~decodes THEN errorResponse(400, "Invalid request body")
    ELSE IF b.MemberName = "" \/ b.Date = "" \/ b.ClassName = ""
         THEN errorResponse(400, "Invalid field format")
    ELSE IF ~ParseDate(b.Date).ok
         THEN errorResponse(400, "Invalid date format, use DD-MM-YYYY")
    ELSE NoResp

\* main.go 162-183: a request arrives and is decoded into newBooking; one
\* that fails a check is answered and the handler returns, one that passes
\* goes on to mutex.Lock().
BookingReceive(p) ==
    /\ pc[p] = "idle"
    /\ \E in \in {<<"GET", FALSE, ZeroBooking>>, <<"POST", FALSE, ZeroBooking>>}
               \cup {<<"POST", TRUE, b>> : b \in BookingBodies} :
         LET r == BookingCheck(in[1], in[2], in[3]) IN
         /\ r = NoResp => BookingFits(in[3])
         /\ newBooking' = [newBooking EXCEPT ![p] = in[3]]
         /\ resp' = [resp EXCEPT ![p] = r]
         /\ pc' = [pc EXCEPT ![p] = IF r = NoResp THEN "b_lock" ELSE "done"]
    /\ UNCHANGED <<data, mutex, newClass, classFound, availableSlots,
                   restarts, faults, loadedBookings>>
    /\ History(p)

\* the booking ID is taken as soon as the mutex is held
BookingLock_TakesId(p) ==
    /\ pc[p] = "b_lock"
    /\ mutex = 0
    /\ mutex' = p
    /\ bookingId' = bookingId + 1
    /\ pc' = [pc EXCEPT ![p] = "b_find"]
    /\ UNCHANGED <<classes, bookings, classId, classesJson, bookingsJson, apiLog,
                   locals, resp, restarts, faults, loadedBookings>>
    /\ History(p)

\* the mutex is taken without waiting for it to be free
BookingLock_NoWait(p) ==
    /\ pc[p] = "b_lock"
    /\ mutex' = p
    /\ pc' = [pc EXCEPT ![p] = "b_find"]
    /\ UNCHANGED <<data, locals, resp, restarts, faults, loadedBookings>>
    /\ History(p)

\* main.go 185: mutex.Lock()
BookingLock(p) ==
    /\ pc[p] = "b_lock"
    /\ mutex = 0
    /\ mutex' = p
    /\ pc' = [pc EXCEPT ![p] = "b_find"]
    /\ UNCHANGED <<data, locals, resp, restarts, faults, loadedBookings>>
    /\ History(p)

\* the handler returns on ClassUnavailable without releasing the mutex
BookingFind_ReturnsLocked(p) ==
    /\ pc[p] = "b_find"
    /\ LET i == FindClass(classes, newBooking[p], 1) IN
         IF i = 0
         THEN /\ resp' = [resp EXCEPT ![p] =
                    errorResponse(400, "Class is not available on the specified date")]
              /\ classFound' = classFound
              /\ pc' = [pc EXCEPT ![p] = "done"]
         ELSE /\ resp' = resp
              /\ classFound' = [classFound EXCEPT ![p] = classes[i]]
              /\ pc' = [pc EXCEPT ![p] = "b_count"]
    /\ UNCHANGED <<data, mutex, newClass, newBooking, availableSlots, restarts,
                   faults, loadedBookings>>
    /\ History(p)

\* main.go 188-203
BookingFind(p) ==
    /\ pc[p] = "b_find"
    /\ LET i == FindClass(classes, newBooking[p], 1) IN
         IF i = 0
         THEN /\ resp' = [resp EXCEPT ![p] =
                    errorResponse(400, "Class is not available on the specified date")]
              /\ classFound' = classFound
              /\ pc' = [pc EXCEPT ![p] = "unlock"]
         ELSE /\ resp' = resp
              /\ classFound' = [classFound EXCEPT ![p] = classes[i]]
              /\ pc' = [pc EXCEPT ![p] = "b_count"]
    /\ UNCHANGED <<data, mutex, newClass, newBooking, availableSlots, restarts,
                   faults, loadedBookings>>
    /\ History(p)

\* the request is refused only when availableSlots < 0
BookingCount_OffByOne(p) ==
    /\ pc[p] = "b_count"
    /\ LET slots == classFound[p].Capacity - CountBookings(bookings, newBooking[p], 1) IN
         /\ availableSlots' = [availableSlots EXCEPT ![p] = slots]
         /\ IF slots < 0
            THEN /\ resp' = [resp EXCEPT ![p] = errorResponse(400,
                       "No available slots for the selected class on this date")]
                 /\ pc' = [pc EXCEPT ![p] = "unlock"]
            ELSE /\ resp' = resp
                 /\ pc' = [pc EXCEPT ![p] = "b_append"]
    /\ UNCHANGED <<data, mutex, newClass, newBooking, classFound, restarts,
                   faults, loadedBookings>>
    /\ History(p)

\* main.go 205-216
BookingCount(p) ==
    /\ pc[p] = "b_count"
    /\ LET slots == classFound[p].Capacity - CountBookings(bookings, newBooking[p], 1) IN
         /\ availableSlots' = [availableSlots EXCEPT ![p] = slots]
         /\ IF slots <= 0
            THEN /\ resp' = [resp EXCEPT ![p] = errorResponse(400,
                       "No available slots for the selected class on this date")]
                 /\ pc' = [pc EXCEPT ![p] = "unlock"]
            ELSE /\ resp' = resp
                 /\ pc' = [pc EXCEPT ![p] = "b_append"]
    /\ UNCHANGED <<data, mutex, newClass, newBooking, classFound, restarts,
                   faults, loadedBookings>>
    /\ History(p)

\* the new record is put in front of the others
BookingAppend_Prepends(p) ==
    /\ pc[p] = "b_append"
    /\ newBooking' = [newBooking EXCEPT ![p].ID = bookingId]
    /\ bookingId' = bookingId + 1
    /\ bookings' = <<newBooking'[p]>> \o bookings
    /\ pc' = [pc EXCEPT ![p] = "b_save"]
    /\ UNCHANGED <<classes, classId, mutex, classesJson, bookingsJson, apiLog,
                   newClass, classFound, availableSlots, resp, restarts,
                   faults, loadedBookings>>
    /\ History(p)

\* main.go 218-220
BookingAppend(p) ==
    /\ pc[p] = "b_append"
    /\ newBooking' = [newBooking EXCEPT ![p].ID = bookingId]
    /\ bookingId' = bookingId + 1
    /\ bookings' = Append(bookings, newBooking'[p])
    /\ pc' = [pc EXCEPT ![p] = "b_save"]
    /\ UNCHANGED <<classes, classId, mutex, classesJson, bookingsJson, apiLog,
                   newClass, classFound, availableSlots, resp, restarts,
                   faults, loadedBookings>>
    /\ History(p)

\* the snapshot written is the one taken before the append
BookingSave_StaleSnapshot(p) ==
    /\ pc[p] = "b_save"
    /\ \E written \in WriteOutcomes :
         IF written
         THEN /\ bookingsJson' = SubSeq(bookings, 1, Len(bookings) - 1)
              /\ faults' = faults
              /\ resp' = resp
              /\ pc' = [pc EXCEPT ![p] = "b_respond"]
         ELSE /\ bookingsJson' = bookingsJson
              /\ faults' = faults + 1
              /\ resp' = [resp EXCEPT ![p] =
                            errorResponse(500, "Failed to save booking data")]
              /\ pc' = [pc EXCEPT ![p] = "unlock"]
    /\ UNCHANGED <<classes, bookings, classId, bookingId, mutex, classesJson,
                   apiLog, locals, restarts, loadedBookings>>
    /\ History(p)

\* main.go 223-226: writeDataToJsonFile("bookings.json", bookings).  A write
\* that returns an error is taken to leave the previous file content.
BookingSave(p) ==
    /\ pc[p] = "b_save"
    /\ \E written \in WriteOutcomes :
         IF written
         THEN /\ bookingsJson' = bookings
              /\ faults' = faults
              /\ resp' = resp
              /\ pc' = [pc EXCEPT ![p] = "b_respond"]
         ELSE /\ bookingsJson' = bookingsJson
              /\ faults' = faults + 1
              /\ resp' = [resp EXCEPT ![p] =
                            errorResponse(500, "Failed to save booking data")]
              /\ pc' = [pc EXCEPT ![p] = "unlock"]
    /\ UNCHANGED <<classes, bookings, classId, bookingId, mutex, classesJson,
                   apiLog, locals, restarts, loadedBookings>>
    /\ History(p)

\* availableSlots is returned as computed before the append
BookingRespond_NoDecrement(p) ==
    /\ pc[p] = "b_respond"
    /\ resp' = [resp EXCEPT ![p] =
                  successResponse(201, "Booking successful", ZeroClass,
                                  newBooking[p], availableSlots[p])]
    /\ pc' = [pc EXCEPT ![p] = "b_log"]
    /\ UNCHANGED <<data, mutex, locals, restarts, faults, loadedBookings>>
    /\ History(p)

\* main.go 228-233
BookingRespond(p) ==
    /\ pc[p] = "b_respond"
    /\ resp' = [resp EXCEPT ![p] =
                  successResponse(201, "Booking successful", ZeroClass,
                                  newBooking[p], availableSlots[p] - 1)]
    /\ pc' = [pc EXCEPT ![p] = "b_log"]
    /\ UNCHANGED <<data, mutex, locals, restarts, faults, loadedBookings>>
    /\ History(p)

\* main.go 234 and 69-81
BookingLog(p) ==
    /\ pc[p] = "b_log"
    /\ \E logged \in WriteOutcomes :
         /\ apiLog' = IF logged
                   THEN Append(apiLog, [msg |-> "Booking successful",
                                        id |-> newBooking[p].ID])
                   ELSE apiLog
         /\ faults' = IF logged THEN faults ELSE faults + 1
    /\ pc' = [pc EXCEPT ![p] = "unlock"]
    /\ UNCHANGED <<classes, bookings, classId, bookingId, mutex, classesJson,
                   bookingsJson, locals, resp, restarts, loadedBookings>>
    /\ History(p)

(***************************************************************************)
(* The process stops (at any point) and is started again: main.go 30-36    *)
(* initialise the globals, main.go 238-246 load the two snapshots.         *)
(***************************************************************************)
Restart ==
    /\ restarts < MaxRestarts
    /\ restarts' = restarts + 1
    /\ classes' = classesJson
    /\ bookings' = bookingsJson
    /\ classId' = 1
    /\ bookingId' = 1
    /\ mutex' = 0
    /\ pc' = [p \in Procs |-> "idle"]
    /\ newClass' = [p \in Procs |-> ZeroClass]
    /\ newBooking' = [p \in Procs |-> ZeroBooking]
    /\ classFound' = [p \in Procs |-> ZeroClass]
    /\ availableSlots' = [p \in Procs |-> 0]
    /\ resp' = [p \in Procs |-> NoResp]
    /\ loadedBookings' = Len(bookingsJson)
    /\ touched' = [p \in Procs |-> FALSE]
    /\ okClass' = 0
    /\ okBooking' = 0
    /\ UNCHANGED <<classesJson, bookingsJson, apiLog, faults, contended>>

\* One step of request goroutine p.
Step(p) ==
    \/ ClassReceive(p)
    \/ ClassLock(p)
    \/ ClassAppend(p)
    \/ ClassSave(p)
    \/ ClassRespond(p)
    \/ ClassLog(p)
    \/ BookingReceive(p)
    \/ BookingLock(p)
    \/ BookingFind(p)
    \/ BookingCount(p)
    \/ BookingAppend(p)
    \/ BookingSave(p)
    \/ BookingRespond(p)
    \/ BookingLog(p)
    \/ Unlock(p)
    \/ Return(p)

Next == \E p \in Procs : Step(p)

\* One process lifetime, started with empty snapshot files, serving
\* concurrent requests.
Spec == Init /\ [][Next]_vars

NextRestart ==
    \/ Step(1)
    \/ Restart

\* Process lifetimes separated by restarts (the process may stop at any
\* point of a handler), the requests arriving one at a time.
SpecRestart == Init /\ [][NextRestart]_vars

\* main.go 146-158, 188-235: the steps a handler takes by itself once it
\* holds the mutex, and its return.
Run(p) ==
    \/ ClassAppend(p)
    \/ ClassSave(p)
    \/ ClassRespond(p)
    \/ ClassLog(p)
    \/ BookingFind(p)
    \/ BookingCount(p)
    \/ BookingAppend(p)
    \/ BookingSave(p)
    \/ BookingRespond(p)
    \/ BookingLog(p)
    \/ Unlock(p)
    \/ Return(p)

\* main.go 143, 185: mutex.Lock()
Acquire(p) == ClassLock(p) \/ BookingLock(p)

\* The request bodies of the runs checked under fair scheduling: a class of
\* capacity MaxCapacity, a one-day class of capacity 1 and a rejected class
\* body; a booking for each class, a booking on a day its class is not
\* held and a rejected booking body.
FairClassBodies ==
    {Class("Pilates", "16-12-2024", "05-01-2025", MaxCapacity),
     Class("Yoga", "16-12-2024", "16-12-2024", 1),
     Class("Yoga", "05-01-2025", "16-12-2024", 1)}

FairBookingBodies ==
    {Booking("Rahul", "16-12-2024", "Pilates"),
     Booking("Rahul", "16-12-2024", "Yoga"),
     Booking("Rahul", "05-01-2025", "Yoga"),
     Booking("Rahul", "12/16/2024", "Pilates")}

\* The request received is one of those bodies, or has none.
FairRequest(p) ==
    /\ newClass'[p] \in FairClassBodies \cup {ZeroClass}
    /\ newBooking'[p] \in FairBookingBodies \cup {ZeroBooking}

NextFair ==
    \E p \in Procs :
        \/ ClassReceive(p) /\ FairRequest(p)
        \/ BookingReceive(p) /\ FairRequest(p)
        \/ Acquire(p)
        \/ Run(p)

\* One process lifetime under fair scheduling: a goroutine that can run is
\* run in the end, every file and response write returns, and a goroutine
\* blocked in mutex.Lock() gets the mutex in the end (sync.Mutex hands the
\* mutex to a waiter that has waited long).  Requests need not arrive.
SpecFair ==
    /\ Init
    /\ [][NextFair]_vars
    /\ \A p \in Procs : WF_vars(Run(p)) /\ SF_vars(Acquire(p))

(***************************************************************************)
(* A batch of concurrent bookings.  The process has registered one or two  *)
(* classes and admitted some bookings of one request body, all saved and   *)
(* logged; now one or more goroutines have received that same body and     *)
(* are at mutex.Lock(), while any other goroutine is idle or is at         *)
(* mutex.Lock() with a class to register.  The responses stay with the     *)
(* clients (no further request is received), and no write of               *)
(* bookings.json fails.                                                    *)
(***************************************************************************)
\* the catalogs of one or two different classes, with their IDs
Catalogs ==
    {<<[c EXCEPT !.ID = 1]>> : c \in ValidClassBodies}
    \cup {<<[ce[1] EXCEPT !.ID = 1], [ce[2] EXCEPT !.ID = 2]>> :
             ce \in {x \in ValidClassBodies \X ValidClassBodies : x[1] # x[2]}}

\* the ledger of k admitted bookings of body b, with their IDs
Ledger(b, k) == [j \in 1..k |-> [b EXCEPT !.ID = j]]

\* the audit lines of the registrations of cs and then the k bookings
AuditLines(cs, k) ==
    [i \in 1..(Len(cs) + k) |->
        IF i <= Len(cs)
        THEN [msg |-> "Class created successfully", id |-> i]
        ELSE [msg |-> "Booking successful", id |-> i - Len(cs)]]

InitContend ==
    \E cs \in Catalogs : \E b \in ValidBookingBodies :
    \E batch \in (SUBSET Procs) \ {{}} :
        /\ FindClass(cs, b, 1) # 0
        /\ \E k \in 0..cs[FindClass(cs, b, 1)].Capacity :
              /\ classes = cs
              /\ bookings = Ledger(b, k)
              /\ classId = Len(cs) + 1
              /\ bookingId = k + 1
              /\ classesJson = cs
              /\ bookingsJson = Ledger(b, k)
              /\ apiLog = AuditLines(cs, k)
              /\ okClass = Len(cs)
              /\ okBooking = k
              /\ contended = [body |-> b,
                              slots |-> cs[FindClass(cs, b, 1)].Capacity - k,
                              procs |-> batch]
        /\ mutex = 0
        /\ newBooking = [p \in Procs |-> IF p \in batch THEN b ELSE ZeroBooking]
        /\ \E registering \in SUBSET (Procs \ batch) :
              /\ Len(cs) + Cardinality(registering) <= MaxClasses
              /\ newClass \in [Procs -> ValidClassBodies \cup {ZeroClass}]
              /\ \A p \in Procs : newClass[p] # ZeroClass <=> p \in registering
              /\ pc = [p \in Procs |-> IF p \in batch THEN "b_lock"
                                       ELSE IF p \in registering THEN "c_lock"
                                       ELSE "idle"]
        /\ classFound = [p \in Procs |-> ZeroClass]
        /\ availableSlots = [p \in Procs |-> 0]
        /\ resp = [p \in Procs |-> NoResp]
        /\ restarts = 0
        /\ faults = 0
        /\ loadedBookings = 0
        /\ touched = [p \in Procs |-> FALSE]

NextContend ==
    \E p \in Procs :
        \/ ClassLock(p)
        \/ ClassAppend(p)
        \/ ClassSave(p)
        \/ ClassRespond(p)
        \/ ClassLog(p)
        \/ BookingLock(p)
        \/ BookingFind(p)
        \/ BookingCount(p)
        \/ BookingAppend(p)
        \/ BookingSave(p) /\ pc'[p] = "b_respond"
        \/ BookingRespond(p)
        \/ BookingLog(p)
        \/ Unlock(p)

SpecContend == InitContend /\ [][NextContend]_vars

(***************************************************************************)
(* Vocabulary of the properties, stated on the stored data alone.          *)
(***************************************************************************)
Min(S) == CHOOSE x \in S : \A y \in S : x <= y

\* A calendar day as a number that grows with the day.
DayNumber(text) ==
    LET t == ParseDate(text) IN t.year * 372 + t.month * 31 + t.day

InRange(class, date) ==
    /\ DayNumber(class.StartDate) <= DayNumber(date)
    /\ DayNumber(date) <= DayNumber(class.EndDate)

\* Positions in the catalog of the classes named name that are active on date.
ActiveOn(name, date) ==
    {i \in 1..Len(classes) : classes[i].ClassName = name /\ InRange(classes[i], date)}

\* Number of ledger records for the class name and date.
CountFor(name, date) ==
    Cardinality({j \in 1..Len(bookings) :
                   bookings[j].ClassName = name /\ bookings[j].Date = date})

BookedDates == {bookings[j].Date : j \in 1..Len(bookings)}

CreatedClass == "Class created successfully"
CreatedBooking == "Booking successful"
ClassUnavailable == "Class is not available on the specified date"
CapacityExceeded == "No available slots for the selected class on this date"
PersistenceFailure == {"Failed to save class data", "Failed to save booking data"}

(***************************************************************************)
(* C1, as stated: for every registered class C and every date D the number *)
(* of ledger records with C's name and date D is at most C's capacity,     *)
(* also when several registered classes share a name.                      *)
(***************************************************************************)
C1_CapacityOfEveryClass ==
    \A i \in 1..Len(classes) : \A d \in BookedDates :
        CountFor(classes[i].ClassName, d) <= classes[i].Capacity

(***************************************************************************)
(* C1, amended: in a process started from empty state, for every date D    *)
(* and every registered class C that is the first-inserted class of its    *)
(* name active on D, the number of ledger records with C's name and date D *)
(* is at most C's capacity.                                                *)
(***************************************************************************)
C1_CapacityOfAdmittingClass ==
    \A i \in 1..Len(classes) : \A d \in BookedDates :
        (/\ i \in ActiveOn(classes[i].ClassName, d)
         /\ i = Min(ActiveOn(classes[i].ClassName, d)))
        => CountFor(classes[i].ClassName, d) <= classes[i].Capacity

\* The admitting class is full while a later class of the same name, active
\* on the same date, has a smaller capacity.
C1_Witness ==
    \E i, k \in 1..Len(classes) : \E d \in BookedDates :
        /\ i < k
        /\ classes[i].ClassName = classes[k].ClassName
        /\ {i, k} \subseteq ActiveOn(classes[i].ClassName, d)
        /\ i = Min(ActiveOn(classes[i].ClassName, d))
        /\ CountFor(classes[i].ClassName, d) = classes[i].Capacity
        /\ classes[k].Capacity < classes[i].Capacity

(***************************************************************************)
(* C2, as stated: in a process started from empty state the k-th           *)
(* successful RegisterClass returns ID k and the k-th successful           *)
(* CreateBooking returns ID k, whatever other calls were rejected or ended *)
(* in PersistenceFailure.                                                  *)
(***************************************************************************)
C2_SuccessIdsGapFree ==
    \A p \in Procs :
        /\ pc[p] = "c_log" => resp[p].class.ID = okClass
        /\ pc[p] = "b_log" => resp[p].booking.ID = okBooking

(***************************************************************************)
(* C2, amended: in a process started from empty state the k-th call that   *)
(* reaches the append (whether its snapshot write then succeeds or fails)  *)
(* is assigned ID k, so the ID a successful call returns is the length of  *)
(* the collection at that moment and at least the number of successful     *)
(* calls so far: strictly increasing from call to call, with one ID        *)
(* skipped for every earlier call that ended in PersistenceFailure.        *)
(***************************************************************************)
C2_IdsCountAppends ==
    \A p \in Procs :
        /\ pc[p] \in {"c_save", "c_respond", "c_log"} =>
              /\ newClass[p].ID = Len(classes)
              /\ classes[Len(classes)] = newClass[p]
        /\ pc[p] = "c_log" =>
              /\ resp[p].class.ID = newClass[p].ID
              /\ resp[p].class.ID >= okClass
        /\ pc[p] \in {"b_save", "b_respond", "b_log"} =>
              /\ newBooking[p].ID = Len(bookings)
              /\ bookings[Len(bookings)] = newBooking[p]
        /\ pc[p] = "b_log" =>
              /\ resp[p].booking.ID = newBooking[p].ID
              /\ resp[p].booking.ID >= okBooking

\* A class is created with ID 2 as the first success, after a failed save.
C2_Witness ==
    \E p \in Procs :
        pc[p] = "c_log" /\ resp[p].class.ID = 2 /\ okClass = 1 /\ faults = 1

(***************************************************************************)
(* C3, as stated: IDs are never reused, also across restarts: all IDs in   *)
(* the catalog are pairwise distinct and so are all IDs in the ledger.     *)
(***************************************************************************)
C3_IdsDistinct ==
    /\ \A i, k \in 1..Len(classes) : i # k => classes[i].ID # classes[k].ID
    /\ \A i, k \in 1..Len(bookings) : i # k => bookings[i].ID # bookings[k].ID

(***************************************************************************)
(* C4: a booking request that passed the field and date checks and for     *)
(* which no registered class of its name is active on its date is refused  *)
(* with ClassUnavailable, whatever the capacities and the existing         *)
(* bookings, and the call appends nothing to the ledger.                   *)
(***************************************************************************)
C4_RangeMembership ==
    [][\A p \in Procs :
         /\ (/\ pc[p] = "b_find" /\ pc'[p] # "b_find" /\ restarts' = restarts
             /\ ActiveOn(newBooking[p].ClassName, newBooking[p].Date) = {})
            => /\ resp'[p].message = ClassUnavailable
               /\ pc'[p] = "unlock"
               /\ UNCHANGED <<bookings, bookingId, bookingsJson>>
         /\ resp'[p].message = ClassUnavailable => ~touched'[p]
      ]_vars

\* Refused although a class of that name with free capacity is registered:
\* the date lies after its end, or before its start.
C4_Witness ==
    \E p \in Procs : \E i \in 1..Len(classes) :
        /\ pc[p] = "unlock"
        /\ resp[p].message = ClassUnavailable
        /\ classes[i].ClassName = newBooking[p].ClassName
        /\ CountFor(newBooking[p].ClassName, newBooking[p].Date) < classes[i].Capacity
        /\ DayNumber(newBooking[p].Date) > DayNumber(classes[i].EndDate)

(***************************************************************************)
(* C5: a booking request whose class is found and whose class name and     *)
(* date already have at least as many ledger records as the found class's  *)
(* capacity is refused with CapacityExceeded; the ledger, the booking ID   *)
(* counter and bookings.json stay as they are.                             *)
(***************************************************************************)
C5_CapacityRejection ==
    [][\A p \in Procs :
         LET n == newBooking[p].ClassName
             d == newBooking[p].Date
         IN (/\ pc[p] = "b_count" /\ pc'[p] # "b_count" /\ restarts' = restarts
             /\ ActiveOn(n, d) # {}
             /\ CountFor(n, d) >= classes[Min(ActiveOn(n, d))].Capacity)
            => /\ resp'[p].message = CapacityExceeded
               /\ pc'[p] = "unlock"
               /\ UNCHANGED <<bookings, bookingId, bookingsJson>>
               /\ ~touched'[p]
      ]_vars

\* The (N+1)-th booking of a class of capacity N = MaxCapacity is refused.
C5_Witness ==
    \E p \in Procs :
        LET n == newBooking[p].ClassName
            d == newBooking[p].Date
        IN /\ pc[p] = "unlock"
           /\ resp[p].message = CapacityExceeded
           /\ classFound[p].Capacity = MaxCapacity
           /\ CountFor(n, d) = MaxCapacity

(***************************************************************************)
(* C6: a successful booking returns availableSlots = the found class's     *)
(* capacity minus the number of ledger records for its class name and date *)
(* counted with this booking included, and that number is never negative.  *)
(***************************************************************************)
C6_AvailableSlots ==
    \A p \in Procs :
        pc[p] = "b_log" =>
            LET n == resp[p].booking.ClassName
                d == resp[p].booking.Date
            IN /\ resp[p].message = CreatedBooking
               /\ ActiveOn(n, d) # {}
               /\ resp[p].availableSlots =
                      classes[Min(ActiveOn(n, d))].Capacity - CountFor(n, d)
               /\ resp[p].availableSlots >= 0

\* The first booking into the class of capacity N returns N - 1.
C6_Witness ==
    \E p \in Procs :
        /\ pc[p] = "b_log"
        /\ classFound[p].Capacity = MaxCapacity
        /\ CountFor(resp[p].booking.ClassName, resp[p].booking.Date) = 1
        /\ resp[p].availableSlots = MaxCapacity - 1

(***************************************************************************)
(* C7, as stated: in every reachable state every record of the in-memory   *)
(* ledger has a date within the range of a class of its name that is in    *)
(* the catalog.                                                            *)
(***************************************************************************)
C7_EveryRecordInRange ==
    \A j \in 1..Len(bookings) :
        ActiveOn(bookings[j].ClassName, bookings[j].Date) # {}

(***************************************************************************)
(* C7, amended: in every reachable state every record that CreateBooking   *)
(* appended to the in-memory ledger since the process was last started has *)
(* a date within the range of a class of its name that is in the catalog.  *)
(* (A record reloaded from bookings.json need not: its class is absent     *)
(* from the reloaded catalog when the registration of that class ended in  *)
(* PersistenceFailure.)                                                    *)
(***************************************************************************)
C7_AdmittedRecordInRange ==
    \A j \in (loadedBookings + 1)..Len(bookings) :
        ActiveOn(bookings[j].ClassName, bookings[j].Date) # {}

\* After a restart the ledger holds a reloaded record without a class and a
\* record admitted since.
C7_Witness ==
    /\ restarts = 1
    /\ loadedBookings >= 1
    /\ Len(bookings) > loadedBookings
    /\ ActiveOn(bookings[1].ClassName, bookings[1].Date) = {}

(***************************************************************************)
(* C8: a call that is answered with InvalidFields, InvalidDateFormat,      *)
(* InvalidRange, ClassUnavailable or CapacityExceeded has not changed the  *)
(* catalog, the ledger, either ID counter, either snapshot file or the     *)
(* audit log.                                                              *)
(***************************************************************************)
Rejections ==
    {"Invalid data format", "Invalid field format",
     "Invalid startDate format, use DD-MM-YYYY",
     "Invalid endDate format, use DD-MM-YYYY",
     "Invalid date format, use DD-MM-YYYY",
     "endDate must be after startDate", ClassUnavailable, CapacityExceeded}

Range(seq) == {seq[i] : i \in 1..Len(seq)}

IsPrefix(a, b) == Len(a) <= Len(b) /\ SubSeq(b, 1, Len(a)) = a

Committed(p) ==
    /\ resp[p].code = 201
    /\ \/ /\ resp[p].message = CreatedClass
          /\ resp[p].class \in Range(classes)
          /\ resp[p].class \in Range(classesJson)
       \/ /\ resp[p].message = CreatedBooking
          /\ resp[p].booking \in Range(bookings)
          /\ resp[p].booking \in Range(bookingsJson)

Rejected(p) ==
    /\ resp[p].code \in {400, 405, 500}
    /\ ~touched[p]

\* the handler is about to return, or has returned
Ended(p) == pc[p] \in {"unlock", "done"} /\ resp[p] # NoResp

C10_TwoOutcomes ==
    \A p \in Procs : Ended(p) => Committed(p) \/ Rejected(p)

(***************************************************************************)
(* C10, amended: every call ends in exactly one of three ways: committed   *)
(* (the entity is in memory, in the snapshot file and returned), rejected  *)
(* (a 4xx error is returned and no stored data was changed), or with       *)
(* PersistenceFailure (a 500 error is returned, the entity is in memory    *)
(* with its ID used up, and the snapshot file does not hold it when the    *)
(* handler returns).  While the guard is free no call is between its       *)
(* append and its return.                                                  *)
(***************************************************************************)
PersistenceFailed(p) ==
    /\ resp[p].code = 500
    /\ touched[p]
    /\ pc[p] = "unlock" =>
          \/ /\ resp[p].message = "Failed to save class data"
             /\ newClass[p] \in Range(classes)
             /\ newClass[p] \notin Range(classesJson)
             /\ classId > newClass[p].ID
          \/ /\ resp[p].message = "Failed to save booking data"
             /\ newBooking[p] \in Range(bookings)
             /\ newBooking[p] \notin Range(bookingsJson)
             /\ bookingId > newBooking[p].ID

C10_ThreeOutcomes ==
    /\ \A p \in Procs :
          Ended(p) =>
             \/ Committed(p) /\ touched[p]
             \/ Rejected(p) /\ resp[p].code # 500
             \/ PersistenceFailed(p)
    /\ mutex = 0 =>
          \A p \in Procs : pc[p] \in {"idle", "done", "c_lock", "b_lock"}

\* A booking call about to return PersistenceFailure.
C10_Witness ==
    \E p \in Procs :
        /\ pc[p] = "unlock"
        /\ resp[p].message = "Failed to save booking data"
        /\ PersistenceFailed(p)

(***************************************************************************)
(* C11: at any time at most one request, of either kind, is between its    *)
(* mutex.Lock() and its Unlock(), and it is the holder of the mutex; and   *)
(* while a CreateBooking is between its class lookup and its ledger append *)
(* no other request takes a step inside the guarded section and nothing    *)
(* changes the catalog, the ledger or the counters, so the class found is  *)
(* still the first match and the count taken is still the count of the     *)
(* ledger when the record is appended.                                     *)
(***************************************************************************)
Guarded ==
    {"c_append", "c_save", "c_respond", "c_log", "b_find", "b_count",
     "b_append", "b_save", "b_respond", "b_log", "unlock"}

InGuard(p) == pc[p] \in Guarded

C11_MutualExclusion ==
    [][/\ \A p, q \in Procs : (InGuard(p) /\ InGuard(q)) => p = q
       /\ \A p \in Procs : InGuard(p) => mutex = p
       /\ \A p \in Procs :
            LET n == newBooking[p].ClassName
                d == newBooking[p].Date
            IN /\ pc[p] \in {"b_count", "b_append"} =>
                     /\ ActiveOn(n, d) # {}
                     /\ classFound[p] = classes[Min(ActiveOn(n, d))]
               /\ pc[p] = "b_append" =>
                     /\ availableSlots[p] = classFound[p].Capacity - CountFor(n, d)
                     /\ availableSlots[p] > 0
               /\ pc[p] \in {"b_find", "b_count", "b_append"} =>
                     /\ \A q \in Procs \ {p} :
                           pc'[q] # pc[q] => pc[q] \in {"idle", "done"}
                     /\ UNCHANGED <<classes, classId, classesJson, bookingsJson>>
                     /\ \/ UNCHANGED <<bookings, bookingId>>
                        \/ /\ pc[p] = "b_append"
                           /\ pc'[p] = "b_save"
                           /\ bookings' = Append(bookings, newBooking'[p])
      ]_vars

\* A booking holds the last slot between its count and its append while
\* another booking for the same class and date waits for the mutex.
C11_Witness ==
    \E p, q \in Procs :
        /\ p # q
        /\ pc[p] = "b_append"
        /\ availableSlots[p] = 1
        /\ pc[q] = "b_lock"
        /\ newBooking[q].ClassName = newBooking[p].ClassName
        /\ newBooking[q].Date = newBooking[p].Date

(***************************************************************************)
(* C12: in both handlers the snapshot write that follows the append is     *)
(* made with the mutex held and the mutex is still held when the write has *)
(* returned, with either outcome; a request that has appended releases the *)
(* mutex only after its write has returned; and between an append and the  *)
(* return of its own write no step changes either collection or either     *)
(* snapshot file.                                                          *)
(***************************************************************************)
Saving(p) == pc[p] \in {"c_save", "b_save"}

C12_PersistBeforeRelease ==
    [][\A p \in Procs :
         /\ Saving(p) => mutex = p /\ mutex' = p
         /\ (Saving(p) /\ pc'[p] = pc[p]) =>
               UNCHANGED <<classes, bookings, classesJson, bookingsJson>>
         /\ (pc[p] = "c_save" /\ pc'[p] # pc[p]) =>
               /\ UNCHANGED <<classes, bookings, bookingsJson>>
               /\ classesJson' \in {classesJson, classes}
               /\ classes[Len(classes)] = newClass[p]
         /\ (pc[p] = "b_save" /\ pc'[p] # pc[p]) =>
               /\ UNCHANGED <<classes, bookings, classesJson>>
               /\ bookingsJson' \in {bookingsJson, bookings}
               /\ bookings[Len(bookings)] = newBooking[p]
         /\ (mutex = p /\ mutex' # p) =>
               /\ pc[p] = "unlock"
               /\ mutex' = 0
               /\ touched[p] =>
                     \/ resp[p].message \in PersistenceFailure
                     \/ /\ resp[p].message = CreatedClass
                        /\ resp[p].class \in Range(classesJson)
                     \/ /\ resp[p].message = CreatedBooking
                        /\ resp[p].booking \in Range(bookingsJson)
      ]_vars

\* The write of classes.json has failed, the mutex is still held and the
\* other request waits for it.
C12_Witness ==
    \E p, q \in Procs :
        /\ pc[p] = "unlock"
        /\ mutex = p
        /\ resp[p].message = "Failed to save class data"
        /\ pc[q] \in {"c_lock", "b_lock"}

(***************************************************************************)
(* C13: a RegisterClass request with non-empty fields, capacity > 0 and    *)
(* two well-formed dates is rejected with InvalidRange if and only if its  *)
(* end date is strictly before its start date; such a rejected request     *)
(* changes nothing, and one whose end date is its start date or later goes *)
(* on to the guarded section and is in the catalog once appended.          *)
(***************************************************************************)
InvalidRange == "endDate must be after startDate"

\* non-empty fields, capacity > 0, both dates well-formed
WellFormedClass(c) ==
    /\ c.ClassName # "" /\ c.StartDate # "" /\ c.EndDate # ""
    /\ c.Capacity > 0
    /\ ParseDate(c.StartDate).ok
    /\ ParseDate(c.EndDate).ok

C13_RangeValidation ==
    \A p \in Procs :
        LET c == newClass[p] IN
        WellFormedClass(c) =>
           /\ resp[p].message = InvalidRange
                 <=> DayNumber(c.EndDate) < DayNumber(c.StartDate)
           /\ resp[p].message = InvalidRange => pc[p] = "done" /\ ~touched[p]
           /\ DayNumber(c.EndDate) >= DayNumber(c.StartDate) =>
                 /\ pc[p] \in {"c_lock", "c_append", "c_save", "c_respond",
                               "c_log", "unlock"}
                 /\ pc[p] \in {"c_save", "c_respond", "c_log", "unlock"} =>
                       classes[Len(classes)] = c

\* A one-day class is in the catalog while a request whose end date is
\* before its start date has been rejected.
C13_Witness ==
    \E p, q \in Procs :
        /\ pc[p] = "c_save"
        /\ newClass[p].StartDate = newClass[p].EndDate
        /\ newClass[p] \in Range(classes)
        /\ pc[q] = "done"
        /\ resp[q].message = InvalidRange
        /\ WellFormedClass(newClass[q])

(***************************************************************************)
(* C14: every request that has committed and answered 201 calls logData    *)
(* once, before it returns; a line is appended to the audit log only by    *)
(* such a call, one line per call, holding its message and the ID it       *)
(* returned; a call that answered an error has appended none and an answer *)
(* once written is not changed; the number of lines is the number of       *)
(* committed calls that have passed their logData, less at most the number *)
(* of failed writes, and equal to it while no write has failed; and a      *)
(* logData that fails to write changes neither the answer nor the catalog, *)
(* the ledger, the counters or the snapshot files.                         *)
(***************************************************************************)
Logging(p) == pc[p] \in {"c_log", "b_log"}

\* committed calls that have returned from logData
PastLog == okClass + okBooking - Cardinality({p \in Procs : Logging(p)})

AuditRecord(r) ==
    [msg |-> r.message,
     id |-> IF r.message = CreatedClass THEN r.class.ID ELSE r.booking.ID]

RequestedNames == {b.ClassName : b \in ValidBookingBodies}
RequestedDates == {b.Date : b \in ValidBookingBodies}

\* Position in the catalog cs of the first class named name that is active
\* on date, 0 when there is none.
FirstActive(cs, name, date) ==
    LET active == {i \in 1..Len(cs) :
                     cs[i].ClassName = name /\ InRange(cs[i], date)}
    IN IF active = {} THEN 0 ELSE Min(active)

C15_FirstInsertedWins ==
    [][/\ \A p \in Procs :
            LET n == newBooking[p].ClassName
                d == newBooking[p].Date
            IN /\ (pc[p] = "b_find" /\ pc'[p] = "b_count") =>
                     classFound'[p] = classes[Min(ActiveOn(n, d))]
               /\ (pc[p] = "b_count" /\ pc'[p] # pc[p]) =>
                     /\ pc'[p] = "b_append"
                           <=> CountFor(n, d) < classes[Min(ActiveOn(n, d))].Capacity
                     /\ pc'[p] = "unlock"
                           <=> CountFor(n, d) >= classes[Min(ActiveOn(n, d))].Capacity
       /\ classes' # classes =>
            \A n \in RequestedNames : \A d \in RequestedDates :
               LET first == FirstActive(classes, n, d) IN
               first # 0 =>
                  /\ FirstActive(classes', n, d) = first
                  /\ classes'[first] = classes[first]
      ]_vars

\* A booking is refused by the capacity of the first-inserted class while a
\* class of the same name registered later, active on the same date, has
\* room.
C15_Witness ==
    \E p \in Procs : \E i, k \in 1..Len(classes) :
        LET n == newBooking[p].ClassName
            d == newBooking[p].Date
        IN /\ pc[p] = "unlock"
           /\ resp[p].message = CapacityExceeded
           /\ i < k
           /\ {i, k} \subseteq ActiveOn(n, d)
           /\ classFound[p] = classes[i]
           /\ CountFor(n, d) = classes[i].Capacity
           /\ CountFor(n, d) < classes[k].Capacity

(***************************************************************************)
(* C16: a CreateBooking that passed the field and date checks and whose    *)
(* date is the start date or the end date of a registered class of the     *)
(* requested name is never answered ClassUnavailable: its lookup finds a   *)
(* class, and it is admitted (its record is appended to the ledger)        *)
(* whenever the class found has capacity left for that date.               *)
(***************************************************************************)
\* the date of b is the start date or the end date of a class of its name
OnEndpoint(b) ==
    \E i \in 1..Len(classes) :
        /\ classes[i].ClassName = b.ClassName
        /\ b.Date \in {classes[i].StartDate, classes[i].EndDate}

C16_InclusiveEndpoints ==
    [][\A p \in Procs :
         LET b == newBooking[p] IN
         OnEndpoint(b) =>
            /\ (pc[p] = "b_find" /\ pc'[p] # pc[p]) =>
                  /\ pc'[p] = "b_count"
                  /\ resp'[p] = NoResp
            /\ (/\ pc[p] = "b_count" /\ pc'[p] # pc[p]
                /\ CountFor(b.ClassName, b.Date) < classFound[p].Capacity) =>
                  pc'[p] = "b_append"
            /\ (pc[p] = "b_append" /\ pc'[p] # pc[p]) =>
                  /\ bookings' = Append(bookings, [b EXCEPT !.ID = bookingId])
                  /\ CountFor(b.ClassName, b.Date)' = CountFor(b.ClassName, b.Date) + 1
            /\ pc[p] = "unlock" => resp[p].message # ClassUnavailable
      ]_vars

\* The ledger holds a booking on the start date and a booking on the end
\* date of the only registered class, which lasts more than one day.
C16_Witness ==
    /\ Len(classes) = 1
    /\ classes[1].StartDate # classes[1].EndDate
    /\ \E j, k \in 1..Len(bookings) :
          /\ bookings[j].ClassName = classes[1].ClassName
          /\ bookings[k].ClassName = classes[1].ClassName
          /\ bookings[j].Date = classes[1].StartDate
          /\ bookings[k].Date = classes[1].EndDate

(***************************************************************************)
(* C17, as stated: the snapshot write is the only I/O made with the mutex  *)
(* held: the mutex is no longer held by a request when it writes its       *)
(* result to the caller and when it appends its audit record.              *)
(***************************************************************************)
C17_OnlyPersistenceUnderGuard ==
    \A p \in Procs :
        pc[p] \in {"c_respond", "c_log", "b_respond", "b_log"} => mutex # p

(***************************************************************************)
(* C18: the first failing check decides the answer.  A decoded             *)
(* RegisterClass body with an empty field or capacity <= 0 is answered     *)
(* InvalidFields whatever its dates; otherwise one with a malformed start  *)
(* date is answered InvalidDateFormat naming startDate whatever its end    *)
(* date; otherwise one with a malformed end date is answered               *)
(* InvalidDateFormat naming endDate; otherwise one whose end is before its *)
(* start is answered InvalidRange.  A decoded CreateBooking body with an   *)
(* empty field is answered InvalidFields whatever its date; otherwise one  *)
(* with a malformed date is answered InvalidDateFormat.  Each of these     *)
(* answers is given in the step that receives the request, which leaves    *)
(* the mutex and all stored data as they are; only a request that passes   *)
(* every check waits for the mutex.                                        *)
(***************************************************************************)
ValidationErrors ==
    {"Invalid data format", "Invalid field format",
     "Invalid startDate format, use DD-MM-YYYY",
     "Invalid endDate format, use DD-MM-YYYY",
     "Invalid date format, use DD-MM-YYYY", InvalidRange}

ClassFieldsBad(c) ==
    c.ClassName = "" \/ c.StartDate = "" \/ c.EndDate = "" \/ c.Capacity <= 0

BookingFieldsBad(b) == b.MemberName = "" \/ b.Date = "" \/ b.ClassName = ""

C18_ValidationOrder ==
    [][\A p \in Procs :
         LET c == newClass[p]
             b == newBooking[p]
             m == resp[p].message
         IN /\ c # ZeroClass =>
                 /\ ClassFieldsBad(c) => m = "Invalid data format"
                 /\ (~ClassFieldsBad(c) /\ ~ParseDate(c.StartDate).ok) =>
                       m = "Invalid startDate format, use DD-MM-YYYY"
                 /\ (/\ ~ClassFieldsBad(c) /\ ParseDate(c.StartDate).ok
                     /\ ~ParseDate(c.EndDate).ok) =>
                       m = "Invalid endDate format, use DD-MM-YYYY"
                 /\ (/\ WellFormedClass(c)
                     /\ DayNumber(c.EndDate) < DayNumber(c.StartDate)) =>
                       m = InvalidRange
            /\ b # ZeroBooking =>
                 /\ BookingFieldsBad(b) => m = "Invalid field format"
                 /\ (~BookingFieldsBad(b) /\ ~ParseDate(b.Date).ok) =>
                       m = "Invalid date format, use DD-MM-YYYY"
            /\ m \in ValidationErrors =>
                 pc[p] = "done" /\ mutex # p /\ ~touched[p]
            /\ (resp'[p] # resp[p] /\ resp'[p].message \in ValidationErrors) =>
                 /\ pc[p] = "idle"
                 /\ pc'[p] = "done"
                 /\ mutex' = mutex
                 /\ UNCHANGED data
            /\ pc[p] = "c_lock" =>
                 /\ WellFormedClass(c)
                 /\ DayNumber(c.EndDate) >= DayNumber(c.StartDate)
            /\ pc[p] = "b_lock" =>
                 ~BookingFieldsBad(b) /\ ParseDate(b.Date).ok
      ]_vars

\* A body with both dates malformed has been answered with the startDate
\* error while the other goroutine holds the mutex.
C18_Witness ==
    \E p, q \in Procs :
        /\ p # q
        /\ mutex = q
        /\ pc[p] = "done"
        /\ ~ClassFieldsBad(newClass[p])
        /\ ~ParseDate(newClass[p].StartDate).ok
        /\ ~ParseDate(newClass[p].EndDate).ok
        /\ resp[p].message = "Invalid startDate format, use DD-MM-YYYY"

(***************************************************************************)
(* C19: within a process lifetime every step leaves the in-memory catalog  *)
(* as it is or adds exactly one element at its end, and the same for the   *)
(* ledger: no element is changed, moved or removed.  The catalog and the   *)
(* class counter change only in the append step of a RegisterClass, which  *)
(* changes neither the ledger nor the booking counter; the ledger and the  *)
(* booking counter change only in the append step of a CreateBooking,      *)
(* which changes neither the catalog nor the class counter.                *)
(***************************************************************************)
ExtendsByOne(old, new) ==
    /\ Len(new) = Len(old) + 1
    /\ \A i \in 1..Len(old) : new[i] = old[i]

C19_AppendOnly ==
    [][/\ classes' = classes \/ ExtendsByOne(classes, classes')
       /\ bookings' = bookings \/ ExtendsByOne(bookings, bookings')
       /\ (classes' # classes \/ classId' # classId) =>
             /\ \E p \in Procs :
                   /\ pc[p] = "c_append"
                   /\ pc'[p] = "c_save"
                   /\ newBooking[p] = ZeroBooking
                   /\ classes' = Append(classes, newClass'[p])
             /\ classId' = classId + 1
             /\ UNCHANGED <<bookings, bookingId, bookingsJson>>
       /\ (bookings' # bookings \/ bookingId' # bookingId) =>
             /\ \E p \in Procs :
                   /\ pc[p] = "b_append"
                   /\ pc'[p] = "b_save"
                   /\ newClass[p] = ZeroClass
                   /\ bookings' = Append(bookings, newBooking'[p])
             /\ bookingId' = bookingId + 1
             /\ UNCHANGED <<classes, classId, classesJson>>
      ]_vars

\* Both stores have been extended twice and hold their elements in the
\* order of insertion.
C19_Witness ==
    /\ Len(classes) = 2
    /\ Len(bookings) = 2
    /\ classes[1].ID < classes[2].ID
    /\ bookings[1].ID < bookings[2].ID

(***************************************************************************)
(* C20: under fair scheduling every request that a handler has taken up    *)
(* reaches its end, with an answer written, and every request that holds   *)
(* the mutex releases it, on every path; a request that has ended, or has  *)
(* not yet passed mutex.Lock(), does not hold the mutex.                   *)
(***************************************************************************)
C20_Completion ==
    /\ [](\A p \in Procs : ~InGuard(p) => mutex # p)
    /\ \A p \in Procs :
          /\ (pc[p] # "idle") ~> (pc[p] = "done" /\ resp[p] # NoResp)
          /\ (mutex = p) ~> (mutex # p)

\* One request holds the mutex while the other waits for it.
C20_Witness ==
    \E p, q \in Procs :
        /\ mutex = p
        /\ pc[p] = "b_find"
        /\ pc[q] = "c_lock"

(***************************************************************************)
(* C21: when K valid CreateBooking requests for one class name and date    *)
(* run concurrently while the class found has r >= 0 slots left, and no    *)
(* write of bookings.json fails, then in every interleaving, once all K    *)
(* have ended, exactly min(K, r) of them are committed and the others are  *)
(* refused with CapacityExceeded; the committed ones have pairwise         *)
(* distinct booking IDs and pairwise distinct availableSlots, which are    *)
(* r-1, r-2, ..., r-min(K, r).  At no moment are more than min(K, r)       *)
(* committed.                                                              *)
(***************************************************************************)
BatchCommitted == {p \in contended.procs : resp[p].message = CreatedBooking}
BatchRefused == {p \in contended.procs : resp[p].message = CapacityExceeded}
BatchEnded == \A p \in contended.procs : pc[p] = "done"

C21_ExactAdmission ==
    LET K == Cardinality(contended.procs)
        r == contended.slots
        admitted == IF K <= r THEN K ELSE r
    IN /\ Cardinality(BatchCommitted) <= admitted
       /\ \A p, q \in BatchCommitted :
             p # q => /\ resp[p].booking.ID # resp[q].booking.ID
                      /\ resp[p].availableSlots # resp[q].availableSlots
       /\ \A p \in BatchCommitted :
             /\ resp[p].booking = [contended.body EXCEPT !.ID = resp[p].booking.ID]
             /\ resp[p].booking \in Range(bookings)
       /\ BatchEnded =>
             /\ Cardinality(BatchCommitted) = admitted
             /\ BatchRefused = contended.procs \ BatchCommitted
             /\ Cardinality(BatchRefused) = K - admitted
             /\ {resp[p].availableSlots : p \in BatchCommitted}
                   = {r - i : i \in 1..admitted}
             /\ CountFor(contended.body.ClassName, contended.body.Date)
                   = classes[FirstActive(classes, contended.body.ClassName,
                                         contended.body.Date)].Capacity
                     - r + admitted

\* Two requests ran for the last slot: both have ended, one committed and
\* one refused.
C21_Witness ==
    /\ Cardinality(contended.procs) = 2
    /\ contended.slots = 1
    /\ BatchEnded
    /\ Cardinality(BatchCommitted) = 1
    /\ Cardinality(BatchRefused) = 1

C23_CapacityByNameAndDate ==
    \A n \in RequestedNames : \A d \in RequestedDates :
        LET first == FirstActive(classes, n, d) IN
        IF first # 0
        THEN CountFor(n, d) <= classes[first].Capacity
        ELSE CountFor(n, d) = 0

\* A class is booked up to its capacity on one date, and a booking of the
\* same name on a date that no class of the name covers has been refused.
C23_Witness ==
    \E p \in Procs : \E n \in RequestedNames : \E d, e \in RequestedDates :
        /\ FirstActive(classes, n, d) # 0
        /\ CountFor(n, d) = classes[FirstActive(classes, n, d)].Capacity
        /\ FirstActive(classes, n, e) = 0
        /\ CountFor(n, e) = 0
        /\ pc[p] = "unlock"
        /\ newBooking[p].ClassName = n
        /\ newBooking[p].Date = e
        /\ resp[p].message = ClassUnavailable

====
